---- MODULE Spec2Model ----
(***************************************************************************)
(* Praguematic: the waste-collection-station client.                       *)
(*   _client.py  WasteCollectionStationServiceGetParams,                   *)
(*               WasteCollectionStationService (_get_waste_stations,       *)
(*               get_waste_stations, iter_waste_stations)                  *)
(*   _models.py  Container / WasteCollectionStation predicates and the     *)
(*               feature-collection algebra (__add__, __sub__)             *)
(* Coroutines are modelled between their suspension points: one action per *)
(* stretch of code that runs without an await.                             *)
(***************************************************************************)
EXTENDS Integers, Sequences, FiniteSets, TLC

VARIABLES
    rate_limit_requests, \* WasteCollectionStationService.rate_limit_requests
    rate_limit_period,   \* WasteCollectionStationService.rate_limit_period (s)
    server,              \* the remote API: a mock ("mock") or a dataset ("data")
    dataset,             \* number of stations the dataset server holds
    pc,                  \* per call: where the coroutine is suspended
    kind,                \* per call: "get" (get_waste_stations) or "iter"
    params,              \* per call: the params argument as the caller gave it
    param_dict,          \* per call: the request's query dictionary
    max_timeout_retries, \* per call: the retry ceiling argument
    attemtp,             \* per call: _get_waste_stations' local counter
    limiter,             \* per call: the AsyncLimiter made at lines 134-137
    yielded,             \* per call: the pages handed to the consumer so far
    err,                 \* per call: status of the HTTP error that reached the caller
    hist,                \* per call: counters of requests, 429s and sleeps
    recent,              \* acquisitions by age in seconds (ages 0..period-1)
    lhs, rhs,            \* operands of the collection algebra
    station, container,  \* receivers of the tri-state predicates
    op, result           \* the last model operation applied and what it returned

retrievalVars == <<rate_limit_requests, rate_limit_period, server, dataset, pc,
                   kind, params, param_dict, max_timeout_retries, attemtp,
                   limiter, yielded, err, hist, recent>>
modelVars == <<lhs, rhs, station, container, op, result>>
vars == <<retrievalVars, modelVars>>

(***************************************************************************)
(* Bounds of the model.                                                    *)
(***************************************************************************)
MaxPages == 4        \* pages a mock server is asked for before the run is cut
MaxRetries == 2      \* largest retry ceiling a caller passes
MaxRate == 2         \* largest rate_limit_requests a service is built with
MaxPeriod == 2       \* largest rate_limit_period a service is built with
MaxData == 5         \* largest small dataset
MaxLen == 2          \* longest feature list / container list of an operand

Procs == {1, 2}      \* concurrent retrieval calls on one service instance

(***************************************************************************)
(* Optional integers.  Python's None, an unset pydantic field and an int   *)
(* are kept apart: k is "unset", "none" or "int".                          *)
(***************************************************************************)
UnsetF == [k |-> "unset", v |-> 0]
NoneF == [k |-> "none", v |-> 0]
IntF(n) == [k |-> "int", v |-> n]

Min(a, b) == IF a < b THEN a ELSE b
Max(a, b) == IF a > b THEN a ELSE b

(***************************************************************************)
(* WasteCollectionStationServiceGetParams                                  *)
(***************************************************************************)
DefaultOffset == 0
DefaultLimit == 10000
LimitLe == 10000

\* The model validates offset >= 0 and limit <= 10000; None passes (Optional).
ValidParams(p) ==
    /\ (p.offset.k = "int" => p.offset.v >= 0)
    /\ (p.limit.k = "int" => p.limit.v <= LimitLe)

\* Lines 128-129: an omitted params argument becomes the all-defaults object.
ParamsOrDefault(p) ==
    IF p.given THEN p ELSE [given |-> TRUE, limit |-> UnsetF, offset |-> UnsetF]

\* Attribute access: an unset field reads as its default.
Attr(f, default) == IF f.k = "unset" THEN IntF(default) ELSE f

ParamsLimit(p) == Attr(ParamsOrDefault(p).limit, DefaultLimit)
ParamsOffset(p) == Attr(ParamsOrDefault(p).offset, DefaultOffset)

\* Python truthiness of an Optional[int].
Truthy(f) == f.k = "int" /\ f.v # 0

\* model_dump(exclude_unset, exclude_none, exclude_defaults): a key is in the
\* dictionary only when the field was set, is not None and differs from its
\* default.  An absent key is UnsetF.
Dumped(f, default) ==
    IF f.k = "int" /\ f.v # default THEN f ELSE UnsetF

_get_params(p) ==
    [offset |-> Dumped(p.offset, DefaultOffset),
     limit |-> Dumped(p.limit, DefaultLimit)]

\* Lines 130-132: the dictionary iter_waste_stations pages with.  The same
\* record stands for get_waste_stations' dictionary, where a missing offset
\* key means the server's first page.
IterParamDict(p) ==
    LET d == _get_params(ParamsOrDefault(p))
    IN  [offset |-> IF d.offset.k = "int" THEN d.offset.v ELSE 0,
         limit |-> d.limit]

(***************************************************************************)
(* The AsyncLimiter of lines 134-137 and 141: a leaky bucket of capacity   *)
(* max_rate that drains max_rate per time_period.  level is kept in units  *)
(* of 1/time_period of an acquisition, so that one second drains max_rate  *)
(* units and one acquisition adds time_period units.                       *)
(***************************************************************************)
NoLimiter == [max_rate |-> 0, time_period |-> 1, level |-> 0]

NewLimiter(limit_rate) ==
    IF limit_rate
    THEN [max_rate |-> rate_limit_requests, time_period |-> rate_limit_period,
          level |-> 0]
    ELSE [max_rate |-> 9999, time_period |-> 1, level |-> 0]

HasCapacity(l) == l.level + l.time_period <= l.max_rate * l.time_period

Acquired(l) == [l EXCEPT !.level = @ + l.time_period]

Leaked(l) == [l EXCEPT !.level = Max(@ - l.max_rate, 0)]

(***************************************************************************)
(* The remote API.  A mock server answers with any status and any page     *)
(* size; a dataset server answers a request for (offset, limit) with the   *)
(* stations at positions [offset, offset+limit) and throttles each page at *)
(* most max_timeout_retries times.                                         *)
(***************************************************************************)
Statuses == {200, 429, 404, 503}

ServerLimit(d) == IF d.limit.k = "int" THEN d.limit.v ELSE DefaultLimit

DataPage(d) == Max(0, Min(ServerLimit(d), dataset - d.offset))

MockSizes(p) ==
    LET l == ParamsLimit(p)
    IN  IF l.k = "int" /\ l.v > 0
        THEN {0, l.v - 1, l.v} \cup (IF l.v <= 2 THEN {l.v + 1} ELSE {})
        ELSE {0, 1, 2}

PageSizes(c) ==
    IF server = "data" THEN {DataPage(param_dict[c])} ELSE MockSizes(params[c])

ErrorStatuses(c) ==
    IF server = "data"
    THEN IF hist[c].fetch429s < max_timeout_retries[c] THEN {429} ELSE {}
    ELSE Statuses \ {200}

(***************************************************************************)
(* WasteCollectionStationService                                           *)
(***************************************************************************)
NoHist ==
    [nreq |-> 0, sleeps |-> 0, fetchReqs |-> 0, fetch429s |-> 0,
     fetchSleeps |-> 0, lastStatus |-> 0, inSlot |-> FALSE]

\* A client.get is issued (line 88): first attempt of a fetch.
FirstRequest(h) ==
    [h EXCEPT !.nreq = @ + 1, !.fetchReqs = 1, !.fetch429s = 0,
              !.fetchSleeps = 0]

ShouldRaise_OffByOne(status, attempt, ceiling) ==
    status # 429 \/ attempt >= ceiling

ShouldRaise_RetryAny(status, attempt, ceiling) == attempt > ceiling

\* Line 93: the except-branch's decision to re-raise.
ShouldRaise(status, attempt, ceiling) == status # 429 \/ attempt > ceiling

\* Lines 105-118 and 85-88: get_waste_stations up to its first client.get.
GetWasteStations(c, p, m) ==
    /\ pc[c] = "idle"
    /\ ValidParams(p)
    /\ kind' = [kind EXCEPT ![c] = "get"]
    /\ params' = [params EXCEPT ![c] = p]
    /\ param_dict' = [param_dict EXCEPT ![c] = IterParamDict(p)]
    /\ max_timeout_retries' = [max_timeout_retries EXCEPT ![c] = m]
    /\ attemtp' = [attemtp EXCEPT ![c] = 1]
    /\ hist' = [hist EXCEPT ![c] = FirstRequest(@)]
    /\ pc' = [pc EXCEPT ![c] = "request"]
    /\ UNCHANGED <<rate_limit_requests, rate_limit_period, server, dataset,
                   limiter, yielded, err, recent, modelVars>>

\* Lines 126-141: iter_waste_stations from the consumer's first __anext__ to
\* the limiter's acquire.
IterWasteStations(c, p, limit_rate, m) ==
    /\ pc[c] = "idle"
    /\ ValidParams(p)
    /\ kind' = [kind EXCEPT ![c] = "iter"]
    /\ params' = [params EXCEPT ![c] = p]
    /\ param_dict' = [param_dict EXCEPT ![c] = IterParamDict(p)]
    /\ max_timeout_retries' = [max_timeout_retries EXCEPT ![c] = m]
    /\ limiter' = [limiter EXCEPT ![c] = NewLimiter(limit_rate)]
    /\ pc' = [pc EXCEPT ![c] = "acquire"]
    /\ UNCHANGED <<rate_limit_requests, rate_limit_period, server, dataset,
                   attemtp, yielded, err, hist, recent, modelVars>>

\* Lines 141-142 and 85-88: the limiter grants a slot and the page's first
\* client.get is issued.  A caller without capacity stays suspended here.
Acquire(c) ==
    /\ pc[c] = "acquire"
    /\ HasCapacity(limiter[c])
    /\ server = "mock" => Len(yielded[c]) < MaxPages
    /\ limiter' = [limiter EXCEPT ![c] = Acquired(@)]
    /\ recent' = [recent EXCEPT ![1] = @ + 1]
    /\ attemtp' = [attemtp EXCEPT ![c] = 1]
    /\ hist' = [hist EXCEPT ![c] = [FirstRequest(@) EXCEPT !.inSlot = TRUE]]
    /\ pc' = [pc EXCEPT ![c] = "request"]
    /\ UNCHANGED <<rate_limit_requests, rate_limit_period, server, dataset,
                   kind, params, param_dict, max_timeout_retries, yielded, err,
                   modelVars>>

\* Lines 89-91, then 113 (return) or 141-148 (leave the limiter, yield).
Respond200(c, n) ==
    /\ pc[c] = "request"
    /\ n \in PageSizes(c)
    /\ hist' = [hist EXCEPT ![c] = [@ EXCEPT !.lastStatus = 200,
                                            !.inSlot = FALSE]]
    /\ yielded' = [yielded EXCEPT
                     ![c] = Append(@, [offset |-> param_dict[c].offset, n |-> n])]
    /\ pc' = [pc EXCEPT ![c] = IF kind[c] = "get" THEN "returned" ELSE "yielded"]
    /\ UNCHANGED <<rate_limit_requests, rate_limit_period, server, dataset,
                   kind, params, param_dict, max_timeout_retries, attemtp,
                   limiter, err, recent, modelVars>>

\* Lines 92-102: raise_for_status raised; re-raise, or log and start the sleep.
HTTPStatusError(c, status) ==
    /\ pc[c] = "request"
    /\ status \in ErrorStatuses(c)
    /\ IF ShouldRaise(status, attemtp[c], max_timeout_retries[c])
       THEN /\ pc' = [pc EXCEPT ![c] = "raised"]
            /\ err' = [err EXCEPT ![c] = status]
            /\ hist' = [hist EXCEPT ![c] =
                          [@ EXCEPT !.lastStatus = status, !.inSlot = FALSE,
                                    !.fetch429s = @ + (IF status = 429 THEN 1 ELSE 0)]]
       ELSE /\ pc' = [pc EXCEPT ![c] = "sleep"]
            /\ err' = err
            /\ hist' = [hist EXCEPT ![c] =
                          [@ EXCEPT !.lastStatus = status, !.fetch429s = @ + 1,
                                    !.sleeps = @ + 1, !.fetchSleeps = @ + 1]]
    /\ UNCHANGED <<rate_limit_requests, rate_limit_period, server, dataset,
                   kind, params, param_dict, max_timeout_retries, attemtp,
                   limiter, yielded, recent, modelVars>>

\* Lines 102-103, 86-88: the sleep is over, the counter goes up and the
\* request is issued again.
Wake(c) ==
    /\ pc[c] = "sleep"
    /\ attemtp' = [attemtp EXCEPT ![c] = @ + 1]
    /\ hist' = [hist EXCEPT ![c] = [@ EXCEPT !.nreq = @ + 1, !.fetchReqs = @ + 1]]
    /\ pc' = [pc EXCEPT ![c] = "request"]
    /\ UNCHANGED <<rate_limit_requests, rate_limit_period, server, dataset,
                   kind, params, param_dict, max_timeout_retries, limiter,
                   yielded, err, recent, modelVars>>

LastPage(c) == yielded[c][Len(yielded[c])]

EndsSequence_OnlyEmpty(limit, n) == n = 0

EndsSequence_FullPageEnds(limit, n) == n = 0 \/ (Truthy(limit) /\ n <= limit.v)

\* Lines 149-153: the page just yielded ends the sequence.
EndsSequence(limit, n) == n = 0 \/ (Truthy(limit) /\ n < limit.v)

Advance_AlwaysLimit(limit, n) == limit.v

\* Lines 151-156: the step the offset is advanced by.
Advance(limit, n) == IF Truthy(limit) THEN limit.v ELSE n

\* Lines 149-156, 140-141: the consumer asks for the next page; the generator
\* resumes after its yield and either finishes or moves on to the acquire.
Resume(c) ==
    /\ pc[c] = "yielded"
    /\ LET limit == ParamsLimit(params[c])
           n == LastPage(c).n
       IN  IF EndsSequence(limit, n)
           THEN /\ pc' = [pc EXCEPT ![c] = "done"]
                /\ param_dict' = param_dict
           ELSE /\ pc' = [pc EXCEPT ![c] = "acquire"]
                /\ param_dict' = [param_dict EXCEPT
                                    ![c].offset = @ + Advance(limit, n)]
    /\ UNCHANGED <<rate_limit_requests, rate_limit_period, server, dataset,
                   kind, params, max_timeout_retries, attemtp, limiter,
                   yielded, err, hist, recent, modelVars>>

\* One second passes: every bucket drains and the log of acquisitions ages.
Tick ==
    /\ limiter' = [c \in Procs |-> Leaked(limiter[c])]
    /\ recent' = <<0>> \o SubSeq(recent, 1, Len(recent) - 1)
    /\ UNCHANGED <<rate_limit_requests, rate_limit_period, server, dataset, pc,
                   kind, params, param_dict, max_timeout_retries, attemtp,
                   yielded, err, hist, modelVars>>

(***************************************************************************)
(* Inputs and specifications of the retrieval engine.                      *)
(***************************************************************************)
Omitted == [given |-> FALSE, limit |-> UnsetF, offset |-> UnsetF]

LimitChoices ==
    {UnsetF, NoneF, IntF(0), IntF(-1), IntF(1), IntF(2), IntF(DefaultLimit)}

OffsetChoices == {UnsetF, NoneF, IntF(3)}

ParamChoices ==
    {Omitted} \cup
    {[given |-> TRUE, limit |-> l, offset |-> o] :
        l \in LimitChoices, o \in OffsetChoices}

NoModelOp ==
    /\ lhs = <<>>
    /\ rhs = <<>>
    /\ station = <<>>
    /\ container = <<>>
    /\ op = "none"
    /\ result = <<>>

\* After WasteCollectionStationService.__init__ (lines 55-63), no call made.
InitService(r, period, srv, n) ==
    /\ rate_limit_requests = r
    /\ rate_limit_period = period
    /\ server = srv
    /\ dataset = n
    /\ pc = [c \in Procs |-> "idle"]
    /\ kind = [c \in Procs |-> "none"]
    /\ params = [c \in Procs |-> Omitted]
    /\ param_dict = [c \in Procs |-> [offset |-> 0, limit |-> UnsetF]]
    /\ max_timeout_retries = [c \in Procs |-> 0]
    /\ attemtp = [c \in Procs |-> 0]
    /\ limiter = [c \in Procs |-> NoLimiter]
    /\ yielded = [c \in Procs |-> <<>>]
    /\ err = [c \in Procs |-> 0]
    /\ hist = [c \in Procs |-> NoHist]
    /\ recent = [i \in 1..period |-> 0]

\* rate_limit_requests and rate_limit_period as __init__ defaults them.
DefaultRequests == 8
DefaultPeriod == 20

Init ==
    /\ InitService(DefaultRequests, DefaultPeriod, "mock", 0)
    /\ NoModelOp

\* One caller and a mock server.  The clock is not observed here: what is
\* checked under Spec is the order and number of requests, sleeps and pages.
Next ==
    \/ \E p \in ParamChoices, m \in 0..MaxRetries : GetWasteStations(1, p, m)
    \/ \E p \in ParamChoices, lr \in BOOLEAN, m \in 0..MaxRetries :
          IterWasteStations(1, p, lr, m)
    \/ Acquire(1)
    \/ \E n \in PageSizes(1) : Respond200(1, n)
    \/ \E s \in Statuses : HTTPStatusError(1, s)
    \/ Wake(1)
    \/ Resume(1)

Spec == Init /\ [][Next]_vars

(***************************************************************************)
(* Two concurrent paginated retrievals on one service instance, rate       *)
(* limiting enabled, with the clock.                                       *)
(***************************************************************************)
InitLimiter ==
    /\ \E r \in 1..MaxRate, period \in 1..MaxPeriod :
          InitService(r, period, "mock", 0)
    /\ NoModelOp

NextLimiter ==
    \E c \in Procs :
        \/ IterWasteStations(c, Omitted, TRUE, 0)
        \/ Acquire(c)
        \/ \E n \in PageSizes(c) : Respond200(c, n)
        \/ Resume(c)
        \/ Tick

SpecLimiter == InitLimiter /\ [][NextLimiter]_vars

(***************************************************************************)
(* One paginated retrieval of a finite dataset.  The consumer keeps asking *)
(* for pages, the server answers every request and every sleep ends.       *)
(***************************************************************************)
DataSizes ==
    0..MaxData \cup
    {DefaultLimit - 1, DefaultLimit, DefaultLimit + 1, 2 * DefaultLimit,
     2 * DefaultLimit + MaxData}

\* Small page limits are paired with the small datasets only, which keeps the
\* number of pages of a run small.
DataLimits ==
    {UnsetF, IntF(DefaultLimit)} \cup
    (IF dataset <= MaxData THEN {IntF(1), IntF(2), IntF(3)} ELSE {})

DataParams ==
    {Omitted} \cup
    {[given |-> TRUE, limit |-> l, offset |-> o] :
        l \in DataLimits,
        o \in {UnsetF, IntF(1), IntF(MaxData), IntF(DefaultLimit)}}

InitData ==
    /\ \E n \in DataSizes : InitService(DefaultRequests, DefaultPeriod, "data", n)
    /\ NoModelOp

NextData ==
    \/ \E p \in DataParams, m \in 0..MaxRetries : IterWasteStations(1, p, FALSE, m)
    \/ Acquire(1)
    \/ \E n \in PageSizes(1) : Respond200(1, n)
    \/ \E s \in Statuses : HTTPStatusError(1, s)
    \/ Wake(1)
    \/ Resume(1)

SpecData == InitData /\ [][NextData]_vars /\ WF_vars(NextData)

(***************************************************************************)
(* _models.py: WasteCollectionStationFeatureCollection.                    *)
(* A feature is [id, properties]; properties is <<>> (None) or <<name>>,   *)
(* the station's name.  A collection is [type, features], features being   *)
(* [k |-> "none"] (None) or [k |-> "list", v |-> the list].                *)
(***************************************************************************)
NoFeatures == [k |-> "none", v |-> <<>>]
ListOf(q) == [k |-> "list", v |-> q]

\* `if x.features:` -- neither None nor empty.
HasFeatures(coll) == coll.features.k = "list" /\ coll.features.v # <<>>

\* `if feature.properties:`
HasProperties(f) == f.properties # <<>>

Name(f) == f.properties[1]

\* Lines 216-219 and 235-237: the loop that collects the station names.
RECURSIVE CollectNames(_, _)
CollectNames(features, names) ==
    IF features = <<>> THEN names
    ELSE CollectNames(Tail(features),
                      IF HasProperties(Head(features))
                      THEN names \cup {Name(Head(features))}
                      ELSE names)

\* Lines 221-224 and 238-241: the loop that appends the features that have
\* properties and whose name is not in names.
RECURSIVE AppendNovel(_, _, _)
AppendNovel(features, names, acc) ==
    IF features = <<>> THEN acc
    ELSE AppendNovel(Tail(features), names,
                     IF HasProperties(Head(features))
                        /\ Name(Head(features)) \notin names
                     THEN Append(acc, Head(features))
                     ELSE acc)

\* Lines 212-225.
__add__(self, other) ==
    LET mine == IF HasFeatures(self) THEN self.features.v ELSE <<>>
        names == CollectNames(mine, {})
        theirs == IF HasFeatures(other) THEN other.features.v ELSE <<>>
    IN  [type |-> self.type, features |-> ListOf(AppendNovel(theirs, names, mine))]

\* Lines 227-242.
__sub__(self, other) ==
    IF ~HasFeatures(self) THEN [type |-> self.type, features |-> ListOf(<<>>)]
    ELSE IF ~HasFeatures(other)
    THEN [type |-> self.type, features |-> ListOf(self.features.v)]
    ELSE LET names == CollectNames(other.features.v, {})
         IN  [type |-> self.type,
              features |-> ListOf(AppendNovel(self.features.v, names, <<>>))]

Add ==
    /\ op' = "add"
    /\ result' = __add__(lhs, rhs)
    /\ UNCHANGED <<lhs, rhs, station, container, retrievalVars>>

Sub ==
    /\ op' = "sub"
    /\ result' = __sub__(lhs, rhs)
    /\ UNCHANGED <<lhs, rhs, station, container, retrievalVars>>

Features ==
    {[id |-> 1, properties |-> <<"a">>], [id |-> 2, properties |-> <<"a">>],
     [id |-> 3, properties |-> <<"b">>], [id |-> 4, properties |-> <<>>]}

SeqsUpTo(S, n) == UNION {[1..k -> S] : k \in 0..n}

FeatureLists == {NoFeatures} \cup {ListOf(q) : q \in SeqsUpTo(Features, MaxLen)}

InitAlgebra ==
    /\ InitService(DefaultRequests, DefaultPeriod, "mock", 0)
    /\ lhs \in [type : {"FeatureCollection", "None"}, features : FeatureLists]
    /\ rhs \in [type : {"Other"}, features : FeatureLists]
    /\ station = <<>>
    /\ container = <<>>
    /\ op = "none"
    /\ result = <<>>

NextAlgebra == Add \/ Sub

SpecAlgebra == InitAlgebra /\ [][NextAlgebra]_vars

(***************************************************************************)
(* _models.py: the tri-state predicates of Container and                   *)
(* WasteCollectionStation.  An Optional[bool] is "None", "True" or         *)
(* "False".  A string is the tuple of its characters.                      *)
(*   container.trash_type         NoneF (no TrashType), [k |-> "noid"]     *)
(*                                (TrashType without id) or IntF(id)       *)
(*   container.pick_days          [k |-> "none"] (no CleaningFrequency),   *)
(*                                [k |-> "nodays"] or [k |-> "str", v]     *)
(*   container.is_monitored       "None", "True" or "False"                *)
(*   container.percent_calculated NoneF (no LastMeasurement),              *)
(*                                [k |-> "nopct"] or IntF(percent)         *)
(*   station.accessibility        NoneF or IntF(EAccessibilityType)        *)
(*   station.containers           [k |-> "none"] (None) or a list          *)
(***************************************************************************)
Tri(b) == IF b THEN "True" ELSE "False"

NoIdF == [k |-> "noid", v |-> 0]
NoPctF == [k |-> "nopct", v |-> 0]
NoDaysF == [k |-> "nodays", v |-> <<>>]
NoFrequencyF == [k |-> "none", v |-> <<>>]
StrF(chars) == [k |-> "str", v |-> chars]

\* ETrashType.PAPER, ETrashType.PLASTICS
PAPER == 5
PLASTICS == 6

\* EPickDay.MONDAY, EPickDay.WEDNESDAY
MONDAY == <<"P", "o">>
WEDNESDAY == <<"S", "t">>

\* str.casefold on the letters the model uses.
CasefoldChar(ch) ==
    CASE ch = "P" -> "p"
      [] ch = "S" -> "s"
      [] ch = "T" -> "t"
      [] ch = "O" -> "o"
      [] OTHER -> ch

Casefold(str) == [i \in 1..Len(str) |-> CasefoldChar(str[i])]

\* `needle in haystack` for strings.
Contains(haystack, needle) ==
    \E i \in 0..(Len(haystack) - Len(needle)) :
        SubSeq(haystack, i + 1, i + Len(needle)) = needle

\* Lines 102-105.
is_suited_for(self, trash_type) ==
    IF self.trash_type.k # "int" THEN "None"
    ELSE Tri(self.trash_type.v = trash_type)

\* Lines 107-110.
is_picked_on(self, day) ==
    IF self.pick_days.k # "str" THEN "None"
    ELSE Tri(Contains(Casefold(self.pick_days.v), Casefold(day)))

\* Lines 112-119.
is_empty(self, threshold) ==
    IF self.is_monitored # "True" \/ self.percent_calculated.k # "int"
    THEN "None"
    ELSE Tri(self.percent_calculated.v <= threshold)

\* Lines 121-128.
is_full(self, threshold) ==
    IF self.is_monitored # "True" \/ self.percent_calculated.k # "int"
    THEN "None"
    ELSE Tri(self.percent_calculated.v >= threshold)

\* Lines 147-150.
is_accessible_for(self, user_type) ==
    IF self.accessibility.k # "int" THEN "None"
    ELSE Tri(self.accessibility.v = user_type)

\* Lines 152-155: any() over the containers' Optional[bool] answers is a
\* bool; None counts as falsy.
has_container_for(self, trash_type) ==
    IF self.containers.k = "none" THEN "None"
    ELSE Tri(\E i \in 1..Len(self.containers.v) :
                is_suited_for(self.containers.v[i], trash_type) = "True")

Ask(name, arg, answer) ==
    /\ op' = <<name, arg>>
    /\ result' = answer
    /\ UNCHANGED <<lhs, rhs, station, container, retrievalVars>>

IsSuitedFor == \E t \in {PAPER, PLASTICS} :
    Ask("is_suited_for", t, is_suited_for(container, t))

IsPickedOn == \E d \in {MONDAY, WEDNESDAY} :
    Ask("is_picked_on", d, is_picked_on(container, d))

IsEmpty == \E th \in {5, 50} : Ask("is_empty", th, is_empty(container, th))

IsFull == \E th \in {95, 50} : Ask("is_full", th, is_full(container, th))

IsAccessibleFor == \E u \in 1..3 :
    Ask("is_accessible_for", u, is_accessible_for(station, u))

HasContainerFor == \E t \in {PAPER, PLASTICS} :
    Ask("has_container_for", t, has_container_for(station, t))

BareContainer ==
    [trash_type |-> NoneF, pick_days |-> NoFrequencyF, is_monitored |-> "None",
     percent_calculated |-> NoneF]

Containers ==
    [trash_type : {NoneF, NoIdF, IntF(PAPER), IntF(PLASTICS)},
     pick_days : {NoFrequencyF, NoDaysF, StrF(<<"P", "o">>),
                  StrF(<<"p", "o", ",", "S", "T">>)},
     is_monitored : {"None", "True", "False"},
     percent_calculated : {NoneF, NoPctF, IntF(5), IntF(50), IntF(95)}]

\* The containers of a station differ in their trash type only.
StationContainers ==
    {[BareContainer EXCEPT !.trash_type = t] :
        t \in {NoneF, NoIdF, IntF(PAPER), IntF(PLASTICS)}}

Stations ==
    [accessibility : {NoneF, IntF(1), IntF(2)},
     containers : {NoFeatures} \cup
                  {ListOf(q) : q \in SeqsUpTo(StationContainers, MaxLen)}]

InitPredicates ==
    /\ InitService(DefaultRequests, DefaultPeriod, "mock", 0)
    /\ lhs = <<>>
    /\ rhs = <<>>
    /\ \/ container \in Containers
          /\ station = [accessibility |-> NoneF, containers |-> NoFeatures]
       \/ container = BareContainer /\ station \in Stations
    /\ op = <<"none", 0>>
    /\ result = "None"

NextPredicates ==
    \/ IsSuitedFor
    \/ IsPickedOn
    \/ IsEmpty
    \/ IsFull
    \/ IsAccessibleFor
    \/ HasContainerFor

SpecPredicates == InitPredicates /\ [][NextPredicates]_vars

(***************************************************************************)
(* Properties of the retrieval engine.                                     *)
(***************************************************************************)
IsIter(c) == kind[c] = "iter"

Fetching(c) == pc[c] \in {"request", "sleep"}

\* Every response the call has had so far was a 200.
AllOk(c) == hist[c].sleeps = 0 /\ pc[c] # "raised"

PageEnds(c, i) ==
    LET l == ParamsLimit(params[c])
    IN  yielded[c][i].n = 0 \/ yielded[c][i].n < l.v

SizesAre(c, sizes) ==
    /\ Len(yielded[c]) = Len(sizes)
    /\ \A i \in 1..Len(sizes) : yielded[c][i].n = sizes[i]

\* A request has been issued after page i of call c; its offset.
HasNextRequest(c, i) ==
    i < Len(yielded[c]) \/ pc[c] \in {"request", "sleep", "raised"}

NextRequestOffset(c, i) ==
    IF i < Len(yielded[c]) THEN yielded[c][i + 1].offset ELSE param_dict[c].offset

\* C1: iter_waste_stations with a page limit L in 1..10000 against a server
\* that answers every request with 200 yields every page up to and including
\* the first page that is empty or shorter than L and issues no request after
\* it, one request per page: sizes [L, L, k], 0 < k < L, take three requests
\* and three pages, sizes [L, L, L, 0] take four.
C1_StopsAtFirstShortPage ==
    \A c \in Procs :
        LET l == ParamsLimit(params[c])
            n == Len(yielded[c])
        IN  (IsIter(c) /\ l.k = "int" /\ l.v >= 1 /\ AllOk(c)) =>
              /\ \A i \in 1..(n - 1) : ~PageEnds(c, i)
              /\ (pc[c] \in {"acquire", "request"} /\ n > 0) => ~PageEnds(c, n)
              /\ pc[c] = "done" => PageEnds(c, n)
              /\ hist[c].nreq = n + (IF pc[c] = "request" THEN 1 ELSE 0)
              /\ \A k \in 1..(l.v - 1) :
                    SizesAre(c, <<l.v, l.v, k>>) =>
                        hist[c].nreq = 3 /\ pc[c] \in {"yielded", "done"}
              /\ SizesAre(c, <<l.v, l.v, l.v, 0>>) =>
                    hist[c].nreq = 4 /\ pc[c] \in {"yielded", "done"}

C1_Witness ==
    /\ IsIter(1) /\ AllOk(1) /\ pc[1] = "done"
    /\ ParamsLimit(params[1]) = IntF(DefaultLimit)
    /\ SizesAre(1, <<DefaultLimit, DefaultLimit, DefaultLimit, 0>>)

\* C2: one fetch against a server that answers 429 k times and then 200,
\* with retry ceiling m: it returns the page after k+1 requests when k <= m
\* and re-raises the 429 after m+1 requests when k > m; a sleep precedes
\* every retry and happens nowhere else (k sleeps on success, m on failure);
\* the attempt counter starts at 1 for every page of a paginated retrieval.
C2_RetryCeiling ==
    \A c \in Procs :
        LET h == hist[c]
            m == max_timeout_retries[c]
        IN  /\ pc[c] = "request" =>
                /\ h.fetchReqs = h.fetchSleeps + 1
                /\ h.fetchSleeps = h.fetch429s
                /\ attemtp[c] = h.fetch429s + 1
            /\ pc[c] = "sleep" =>
                h.fetchReqs = h.fetchSleeps /\ h.fetchSleeps = h.fetch429s
            /\ (pc[c] \in {"yielded", "returned"}) =>
                /\ h.fetch429s <= m
                /\ h.fetchReqs = h.fetch429s + 1
                /\ h.fetchSleeps = h.fetch429s
            /\ (pc[c] = "raised" /\ err[c] = 429) =>
                /\ h.fetch429s = m + 1
                /\ h.fetchReqs = m + 1
                /\ h.fetchSleeps = m

C2_Witness ==
    /\ IsIter(1) /\ pc[1] = "yielded" /\ Len(yielded[1]) = 2
    /\ max_timeout_retries[1] = 2
    /\ hist[1].fetch429s = 2 /\ hist[1].sleeps = 4

\* C3: a non-2xx status other than 429 reaches the caller after that one
\* request, with no retry and no sleep, whatever the ceiling and however many
\* 429 retries came before; the call is then over (no request in flight, no
\* slot held) and every sleep of the fetch belonged to an earlier 429.
C3_FatalStatusPropagates ==
    \A c \in Procs :
        hist[c].lastStatus \notin {0, 200, 429} =>
            /\ pc[c] = "raised"
            /\ err[c] = hist[c].lastStatus
            /\ ~hist[c].inSlot
            /\ hist[c].fetchSleeps = hist[c].fetch429s
            /\ hist[c].fetchReqs = hist[c].fetch429s + 1

C3_Witness ==
    /\ IsIter(1) /\ pc[1] = "raised" /\ err[1] = 503
    /\ Len(yielded[1]) = 1
    /\ hist[1].fetch429s = 2
    /\ max_timeout_retries[1] = 2

\* C4 (as claimed): for every accepted parameter object the offsets of
\* successive page requests are strictly increasing, and a page is requested
\* only after the previous page's slot is released and the page was yielded
\* and resumed, so that at most one request is in flight.
C4_OffsetsIncrease ==
    \A c \in Procs :
        IsIter(c) =>
            /\ \A i \in 1..Len(yielded[c]) :
                  HasNextRequest(c, i) =>
                      NextRequestOffset(c, i) > yielded[c][i].offset
            /\ hist[c].inSlot <=> Fetching(c)
            /\ pc[c] = "request" =>
                  hist[c].fetchReqs = hist[c].fetchSleeps + 1

\* C5 (as claimed): after a page that does not end the sequence, an
\* explicitly set limit moves the offset by that limit; with no limit set
\* (params omitted or built without limit) the offset moves by the number of
\* features returned and only an empty page ends the sequence.
C5_Original ==
    \A c \in Procs :
        IsIter(c) =>
            LET given == ParamsOrDefault(params[c]).limit
            IN  /\ \A i \in 1..Len(yielded[c]) :
                      HasNextRequest(c, i) =>
                          NextRequestOffset(c, i) =
                              yielded[c][i].offset +
                                  (IF given.k = "int" THEN given.v
                                   ELSE yielded[c][i].n)
                /\ (given.k = "unset" /\ pc[c] = "done") => LastPage(c).n = 0

\* C5 (amended): when params.limit is a non-zero integer, set by the caller
\* or the default 10000 of an omitted params / unset limit, the next offset
\* is the previous one plus that limit and the sequence ends on an empty or
\* shorter page; when params.limit is None or 0 the next offset is the
\* previous one plus the number of features returned and only an empty page
\* ends the sequence.
C5_AdvanceByEffectiveLimit ==
    \A c \in Procs :
        IsIter(c) =>
            LET l == ParamsLimit(params[c])
            IN  /\ \A i \in 1..Len(yielded[c]) :
                      HasNextRequest(c, i) =>
                          /\ NextRequestOffset(c, i) =
                                yielded[c][i].offset +
                                    (IF Truthy(l) THEN l.v ELSE yielded[c][i].n)
                          /\ yielded[c][i].n # 0
                          /\ Truthy(l) => yielded[c][i].n >= l.v
                /\ pc[c] = "done" =>
                      \/ LastPage(c).n = 0
                      \/ Truthy(l) /\ LastPage(c).n < l.v

C5_Witness ==
    /\ IsIter(1) /\ params[1] = Omitted /\ pc[1] = "done"
    /\ Len(yielded[1]) = 2
    /\ yielded[1][1].n = DefaultLimit
    /\ yielded[1][2] = [offset |-> DefaultLimit, n |-> DefaultLimit - 1]

RECURSIVE SumSeq(_)
SumSeq(q) == IF q = <<>> THEN 0 ELSE q[1] + SumSeq(Tail(q))

\* C6 (as claimed): with rate limiting enabled, the sequences running on one
\* service draw from one limiter: over all of them together at most
\* rate_limit_requests acquisitions complete within any window of
\* rate_limit_period seconds.
C6_SharedQuota == SumSeq(recent) <= rate_limit_requests

PageCount(c, i) == yielded[c][i].n

SizesBefore(c, i) == SumSeq([j \in 1..(i - 1) |-> PageCount(c, j)])

\* The pages of call c, concatenated, are the stations at positions
\* start, start+1, ... of the dataset, each once and in order.
PagesAreDataset(c) ==
    LET start == ParamsOffset(params[c]).v
    IN  /\ \A i \in 1..Len(yielded[c]) :
              PageCount(c, i) > 0 =>
                  yielded[c][i].offset = start + SizesBefore(c, i)
        /\ SizesBefore(c, Len(yielded[c]) + 1) = Max(0, dataset - start)

\* C10: for a finite dataset, a starting offset >= 0 and a page limit that
\* is unset or in 1..10000, against a server that returns the stations at
\* [offset, offset+limit) and throttles each page at most
\* max_timeout_retries times, iter_waste_stations eventually ends, after
\* finitely many requests, having yielded exactly the dataset from the
\* starting offset on, each station once and in order.
C10_EndsWithWholeDataset ==
    <>(/\ pc[1] = "done"
       /\ PagesAreDataset(1)
       /\ hist[1].nreq <= Len(yielded[1]) * (max_timeout_retries[1] + 1))

C10_Witness ==
    /\ pc[1] = "done" /\ dataset = 2 * DefaultLimit + MaxData
    /\ params[1] = Omitted
    /\ Len(yielded[1]) = 3
    /\ hist[1].sleeps > 0

(***************************************************************************)
(* Properties of the collection algebra.                                   *)
(***************************************************************************)
ListOrEmpty(coll) == IF coll.features.k = "list" THEN coll.features.v ELSE <<>>

\* The names of the stations of a collection's features.
StationNames(coll) ==
    {Name(ListOrEmpty(coll)[i]) :
        i \in {j \in 1..Len(ListOrEmpty(coll)) : HasProperties(ListOrEmpty(coll)[j])}}

\* The feature's station name is the name of a feature of coll.
NameIn(f, coll) == HasProperties(f) /\ Name(f) \in StationNames(coll)

\* C7 (as claimed): the features of A + B are A's features in order,
\* followed by the features of B whose station name is not the name of any
\* feature of A, in B's order; the type tag is A's.
C7_Original ==
    op = "add" =>
        /\ result.type = lhs.type
        /\ result.features =
              ListOf(ListOrEmpty(lhs) \o
                     SelectSeq(ListOrEmpty(rhs), LAMBDA f : ~NameIn(f, lhs)))

\* C8 (as claimed): the features of A - B are the features of A, with or
\* without station properties, whose station name is not the name of any
\* feature of B, in A's order, by the same rule whether B is empty or not:
\* an empty B gives a copy of A, an empty A gives the empty result.
C8_SameRule ==
    op = "sub" =>
        /\ result.type = lhs.type
        /\ result.features =
              ListOf(SelectSeq(ListOrEmpty(lhs), LAMBDA f : ~NameIn(f, rhs)))

(***************************************************************************)
(* Properties of the tri-state predicates.                                 *)
(***************************************************************************)
Asked(name) == op[1] = name

LacksTrashType(cont) == cont.trash_type.k # "int"

\* C9 (as claimed): each of the six predicates answers unknown (None),
\* never False, when a field its answer depends on is absent; has_container_for
\* answers unknown for a station whose container list is present but whose
\* containers have no trash type or no trash-type id, and when the only
\* containers that could match lack that data.
C9_UnknownNotFalse ==
    /\ (Asked("is_suited_for") /\ LacksTrashType(container)) => result = "None"
    /\ (Asked("is_picked_on") /\ container.pick_days.k # "str") => result = "None"
    /\ (Asked("is_empty") /\ (container.is_monitored = "None"
                              \/ container.percent_calculated.k # "int"))
          => result = "None"
    /\ (Asked("is_full") /\ (container.is_monitored = "None"
                             \/ container.percent_calculated.k # "int"))
          => result = "None"
    /\ (Asked("is_accessible_for") /\ station.accessibility.k # "int")
          => result = "None"
    /\ (Asked("has_container_for") /\ station.containers.k = "none")
          => result = "None"
    /\ (/\ Asked("has_container_for")
        /\ station.containers.k = "list"
        /\ \E i \in 1..Len(station.containers.v) :
              LacksTrashType(station.containers.v[i])
        /\ \A i \in 1..Len(station.containers.v) :
              ~(station.containers.v[i].trash_type = IntF(op[2])))
          => result = "None"
====
